---- MODULE Spec2Model ----
(***************************************************************************)
(* The debug console of addok (addok/debug.py): the command registry built *)
(* by Cli._inspect_commands, the dispatcher Cli.handle_command, the        *)
(* commands do_*, the read loop Cli.__call__ and the readline history.     *)
(*                                                                         *)
(* Text is modelled as a sequence of one-character strings, so that        *)
(* startswith, split, count, upper and lower are computed as Python        *)
(* computes them.  An optional value (Python's None) is a sequence of      *)
(* length 0 (None) or 1 (the value).                                       *)
(***************************************************************************)
EXTENDS Integers, Sequences, FiniteSets, TLC

VARIABLES
    members,       \* names of the functions defined by class Cli
    COMMANDS,      \* self.COMMANDS: keyword -> the method whose __doc__ it holds
    state,         \* position of the console: "UNBUILT" (no Cli yet), "NEW"
                   \* (built, __call__ not entered), "READY" (at prompt()),
                   \* "DISPATCHING" (in handle_command), "DISPATCHED" (at
                   \* the separator), "TERMINATED" (left by break),
                   \* "CRASHED" (left by an exception)
    command_line,  \* the line handle_command was given (None before any)
    last,          \* what the last handle_command call did
    out,           \* what the shell has shown so far, in order
    nlines,        \* number of lines read by prompt()
    proc,          \* history: "running" or "exited" process
    file,          \* history: content of HISTORY_FILE (None when missing)
    hist,          \* history: readline's in-memory history list
    loaded,        \* history: content of the file when the process started
    typed,         \* history: lines input() returned in this process
    atexit_n,      \* history: number of registered save_history handlers
    doc,           \* do_get: the hash stored for the document
    get_out,       \* do_get: the lines printed
    get_res        \* do_get: "none" before the call, then how it ended

vars == <<members, COMMANDS, state, command_line, last, out, nlines,
          proc, file, hist, loaded, typed, atexit_n, doc, get_out, get_res>>

shellVars == <<state, command_line, last, out, nlines>>
histVars == <<proc, file, hist, loaded, typed, atexit_n>>
getVars == <<doc, get_out, get_res>>

(***************************************************************************)
(* Bounds of the model.                                                    *)
(***************************************************************************)
\* pieces appended to the head of an input line
MaxTail == 3
\* lines read by one run of the shell, of all the input lines
MaxLines == 1
\* lines read by one run of the shell, of the short input lines
MaxLoopLines == 3
\* entries of the readline history
MaxHist == 4
\* fields of a stored document
MaxFields == 3
\* Cli objects constructed by one process
MaxCli == 2

None == <<>>
Some(x) == <<x>>

(***************************************************************************)
(* Python's str operations.                                                *)
(***************************************************************************)
LowerLetters == <<"a","b","c","d","e","f","g","h","i","j","k","l","m","n","o","p","q","r","s","t","u","v","w","x","y","z">>
UpperLetters == <<"A","B","C","D","E","F","G","H","I","J","K","L","M","N","O","P","Q","R","S","T","U","V","W","X","Y","Z">>

\* code points, as far as the order of the characters used goes
ord(c) ==
    IF \E i \in 1..26 : UpperLetters[i] = c
    THEN 64 + (CHOOSE i \in 1..26 : UpperLetters[i] = c)
    ELSE IF \E i \in 1..26 : LowerLetters[i] = c
    THEN 96 + (CHOOSE i \in 1..26 : LowerLetters[i] = c)
    ELSE IF c = "_" THEN 95
    ELSE IF c = "|" THEN 124
    ELSE IF c = "1" THEN 49
    ELSE 32

upperChar(c) ==
    IF \E i \in 1..26 : LowerLetters[i] = c
    THEN UpperLetters[CHOOSE i \in 1..26 : LowerLetters[i] = c]
    ELSE c

lowerChar(c) ==
    IF \E i \in 1..26 : UpperLetters[i] = c
    THEN LowerLetters[CHOOSE i \in 1..26 : UpperLetters[i] = c]
    ELSE c

upper(s) == [i \in 1..Len(s) |-> upperChar(s[i])]

lower(s) == [i \in 1..Len(s) |-> lowerChar(s[i])]

startswith(s, p) == Len(p) <= Len(s) /\ SubSeq(s, 1, Len(p)) = p

count(s, c) == Cardinality({i \in 1..Len(s) : s[i] = c})

\* s.find(sep): first index of sep in s, 0 when absent
find(s, sep) ==
    LET hits == {i \in 1..(Len(s) - Len(sep) + 1) : SubSeq(s, i, i + Len(sep) - 1) = sep}
    IN IF hits = {} THEN 0 ELSE CHOOSE i \in hits : \A j \in hits : i <= j

contains(s, sep) == find(s, sep) > 0

RECURSIVE split(_, _)
\* s.split(sep)
split(s, sep) ==
    LET i == find(s, sep)
    IN IF i = 0 THEN <<s>>
       ELSE <<SubSeq(s, 1, i - 1)>> \o split(SubSeq(s, i + Len(sep), Len(s)), sep)

\* s.split(sep, 1), for an s that contains sep
split_once(s, sep) ==
    LET i == find(s, sep)
    IN <<SubSeq(s, 1, i - 1), SubSeq(s, i + Len(sep), Len(s))>>

RECURSIVE split_ws(_)
\* s.split(): the maximal runs of non-blank characters
split_ws(s) ==
    IF s = <<>> THEN <<>>
    ELSE IF Head(s) = " " THEN split_ws(Tail(s))
    ELSE LET blanks == {i \in 1..Len(s) : s[i] = " "}
             e == IF blanks = {} THEN Len(s) + 1
                  ELSE CHOOSE i \in blanks : \A j \in blanks : i <= j
         IN <<SubSeq(s, 1, e - 1)>> \o split_ws(SubSeq(s, e, Len(s)))

\* float(s) succeeds; of the characters used only the digit makes a number
is_float(s) == s # <<>> /\ \A i \in 1..Len(s) : s[i] = "1"

\* a < b in Python's order of str
str_less(a, b) ==
    \E i \in 1..(Len(b)) :
        /\ \A j \in 1..(i - 1) : j <= Len(a) /\ a[j] = b[j]
        /\ \/ i = Len(a) + 1
           \/ i <= Len(a) /\ ord(a[i]) < ord(b[i])

(***************************************************************************)
(* class Cli: the names of its functions.  A name is kept as a string; its *)
(* characters are looked up in NameTable, which also holds the keywords    *)
(* the names give.                                                         *)
(***************************************************************************)
NameTable ==
    {
     <<"do_search", <<"d","o","_","s","e","a","r","c","h">>>>,
     <<"do_explain", <<"d","o","_","e","x","p","l","a","i","n">>>>,
     <<"do_tokenize", <<"d","o","_","t","o","k","e","n","i","z","e">>>>,
     <<"do_help", <<"d","o","_","h","e","l","p">>>>,
     <<"do_get", <<"d","o","_","g","e","t">>>>,
     <<"do_frequency", <<"d","o","_","f","r","e","q","u","e","n","c","y">>>>,
     <<"do_autocomplete", <<"d","o","_","a","u","t","o","c","o","m","p","l","e","t","e">>>>,
     <<"do_index", <<"d","o","_","i","n","d","e","x">>>>,
     <<"do_bestscore", <<"d","o","_","b","e","s","t","s","c","o","r","e">>>>,
     <<"do_reverse", <<"d","o","_","r","e","v","e","r","s","e">>>>,
     <<"do_pair", <<"d","o","_","p","a","i","r">>>>,
     <<"do_distance", <<"d","o","_","d","i","s","t","a","n","c","e">>>>,
     <<"do_dbinfo", <<"d","o","_","d","b","i","n","f","o">>>>,
     <<"do_dbkey", <<"d","o","_","d","b","k","e","y">>>>,
     <<"do_geodistance", <<"d","o","_","g","e","o","d","i","s","t","a","n","c","e">>>>,
     <<"do_geohashtogeojson", <<"d","o","_","g","e","o","h","a","s","h","t","o","g","e","o","j","s","o","n">>>>,
     <<"prompt", <<"p","r","o","m","p","t">>>>,
     <<"_search", <<"_","s","e","a","r","c","h">>>>,
     <<"handle_command", <<"h","a","n","d","l","e","_","c","o","m","m","a","n","d">>>>,
     <<"completer", <<"c","o","m","p","l","e","t","e","r">>>>,
     <<"do_GET", <<"d","o","_","G","E","T">>>>,
     <<"do_Get", <<"d","o","_","G","e","t">>>>,
     <<"do_Help", <<"d","o","_","H","e","l","p">>>>,
     <<"do_new", <<"d","o","_","n","e","w">>>>,
     <<"new", <<"n","e","w">>>>,
     <<"SEARCH", <<"S","E","A","R","C","H">>>>,
     <<"EXPLAIN", <<"E","X","P","L","A","I","N">>>>,
     <<"TOKENIZE", <<"T","O","K","E","N","I","Z","E">>>>,
     <<"HELP", <<"H","E","L","P">>>>,
     <<"GET", <<"G","E","T">>>>,
     <<"FREQUENCY", <<"F","R","E","Q","U","E","N","C","Y">>>>,
     <<"AUTOCOMPLETE", <<"A","U","T","O","C","O","M","P","L","E","T","E">>>>,
     <<"INDEX", <<"I","N","D","E","X">>>>,
     <<"BESTSCORE", <<"B","E","S","T","S","C","O","R","E">>>>,
     <<"REVERSE", <<"R","E","V","E","R","S","E">>>>,
     <<"PAIR", <<"P","A","I","R">>>>,
     <<"DISTANCE", <<"D","I","S","T","A","N","C","E">>>>,
     <<"DBINFO", <<"D","B","I","N","F","O">>>>,
     <<"DBKEY", <<"D","B","K","E","Y">>>>,
     <<"GEODISTANCE", <<"G","E","O","D","I","S","T","A","N","C","E">>>>,
     <<"GEOHASHTOGEOJSON", <<"G","E","O","H","A","S","H","T","O","G","E","O","J","S","O","N">>>>,
     <<"NEW", <<"N","E","W">>>>}

\* the characters of a name, and the name made of given characters
chars(name) == (CHOOSE p \in NameTable : p[1] = name)[2]

text(cs) == (CHOOSE p \in NameTable : p[2] = cs)[1]

do_prefix == <<"d","o","_">>

CliCommands ==
    {"do_search", "do_explain", "do_tokenize", "do_help",
     "do_get", "do_frequency", "do_autocomplete", "do_index",
     "do_bestscore", "do_reverse", "do_pair", "do_distance",
     "do_dbinfo", "do_dbkey", "do_geodistance", "do_geohashtogeojson"}

\* functions of Cli that are not commands
CliHelpers == {"prompt", "_search", "handle_command", "completer"}

CliMembers == CliCommands \cup CliHelpers

(***************************************************************************)
(* Cli._inspect_commands                                                   *)
(***************************************************************************)
RECURSIVE getmembers(_)
\* inspect.getmembers: the members sorted by name
getmembers(ms) ==
    IF ms = {} THEN <<>>
    ELSE LET x == CHOOSE m \in ms : TRUE
             rest == getmembers(ms \ {x})
             k == Cardinality({i \in 1..Len(rest) : str_less(chars(rest[i]), chars(x))})
         IN SubSeq(rest, 1, k) \o <<x>> \o SubSeq(rest, k + 1, Len(rest))

\* self.COMMANDS[key] = value
setitem(C, key, value) == [k \in DOMAIN C \cup {key} |-> IF k = key THEN value ELSE C[k]]

RECURSIVE inspect_loop(_, _)
inspect_loop(seq, C) ==
    IF seq = <<>> THEN C
    ELSE LET name == Head(seq)
         IN inspect_loop(Tail(seq),
                IF startswith(chars(name), do_prefix)
                THEN setitem(C, text(upper(SubSeq(chars(name), 4, Len(chars(name))))), name)
                ELSE C)

_inspect_commands(ms) == inspect_loop(getmembers(ms), <<>>)

\* hasattr(self, name), for the names handle_command builds
hasattr(name) == \E m \in members : chars(m) = name

(***************************************************************************)
(* Cli.handle_command                                                      *)
(***************************************************************************)
SEARCH == <<"S","E","A","R","C","H">>

\* parse_command without the test for the default command
parse_command_no_default(line) ==
    IF count(line, " ") > 0
    THEN [action |-> split_once(line, <<" ">>)[1], arg |-> Some(split_once(line, <<" ">>)[2])]
    ELSE [action |-> line, arg |-> None]

\* parse_command giving a bare keyword the empty string as argument
parse_command_empty_arg(line) ==
    IF ~ \E k \in DOMAIN COMMANDS : startswith(line, chars(k))
    THEN [action |-> SEARCH, arg |-> Some(line)]
    ELSE IF count(line, " ") > 0
    THEN [action |-> split_once(line, <<" ">>)[1], arg |-> Some(split_once(line, <<" ">>)[2])]
    ELSE [action |-> line, arg |-> Some(<<>>)]

\* lines 293-300: the action and the argument read from a non-empty line
parse_command(line) ==
    IF ~ \E k \in DOMAIN COMMANDS : startswith(line, chars(k))
    THEN [action |-> SEARCH, arg |-> Some(line)]
    ELSE IF count(line, " ") > 0
    THEN [action |-> split_once(line, <<" ">>)[1], arg |-> Some(split_once(line, <<" ">>)[2])]
    ELSE [action |-> line, arg |-> None]

\* the method called (at most one) with its argument, or the 'No command' report
handle_command(line) ==
    IF line = <<>>
    THEN [invoked |-> <<>>, nocommand |-> FALSE]
    ELSE LET p == parse_command(line)
             fx_name == do_prefix \o lower(p.action)
         IN IF hasattr(fx_name)
            THEN [invoked |-> <<[fx |-> text(fx_name), arg |-> p.arg]>>, nocommand |-> FALSE]
            ELSE [invoked |-> <<>>, nocommand |-> TRUE]

(***************************************************************************)
(* The commands.  Each gives the set of ways its call can end:             *)
(*   res     "ok" (returned after printing its result), "malformed"        *)
(*           (returned after printing its usage message) or "raise" (an    *)
(*           exception other than KeyboardInterrupt and EOFError left it); *)
(*   sim     whether compare_ngrams was called;                            *)
(*   printed what it printed: "help" is the command listing, "text" any    *)
(*           other output.                                                 *)
(* A call into the store, the search engine or the tokenizer can always    *)
(* fail, so every command that makes one can end in "raise".               *)
(***************************************************************************)
Ok == [res |-> "ok", sim |-> FALSE, printed |-> <<"text">>]
Raise == [res |-> "raise", sim |-> FALSE, printed |-> <<>>]
Malformed == [res |-> "malformed", sim |-> FALSE, printed |-> <<"text">>]

\* a command that hands its argument to a collaborator
collaborator(arg) == {Ok, Raise}

CENTER == <<"C","E","N","T","E","R">>

_search(query) ==
    IF query = None THEN {Raise}
    ELSE IF contains(query[1], CENTER)
    THEN LET parts == split(query[1], CENTER)
         IN IF Len(parts) # 2 THEN {Raise}
            ELSE LET center == split_ws(parts[2])
                 IN IF Len(center) # 2 THEN {Raise}
                    ELSE IF ~ is_float(center[1]) \/ ~ is_float(center[2]) THEN {Raise}
                    ELSE {Ok, Raise}
    ELSE {Ok, Raise}

do_search(query) == _search(query)

do_explain(query) == _search(query)

do_help(args) == {[res |-> "ok", sim |-> FALSE, printed |-> <<"help">>]}

do_reverse(latlon) ==
    IF latlon = None THEN {Raise}
    ELSE LET parts == split_ws(latlon[1])
         IN IF Len(parts) # 2 THEN {Raise}
            ELSE IF ~ is_float(parts[1]) \/ ~ is_float(parts[2]) THEN {Raise}
            ELSE {Ok, Raise}

do_distance(s) ==
    IF s = None THEN {Raise}
    ELSE IF Len(split(s[1], <<"|">>)) # 2 THEN {Malformed}
    ELSE {[res |-> "ok", sim |-> TRUE, printed |-> <<"text">>],
          [res |-> "raise", sim |-> TRUE, printed |-> <<>>]}

do_geodistance(s) ==
    IF s = None THEN {Malformed}
    ELSE LET parts == split_ws(s[1])
         IN IF Len(parts) # 3 THEN {Malformed}
            ELSE IF ~ is_float(parts[2]) \/ ~ is_float(parts[3]) THEN {Raise}
            ELSE {Ok, Raise}

\* getattr(self, fx_name)(arg)
call(fx, arg) ==
    IF fx = "do_search" THEN do_search(arg)
    ELSE IF fx = "do_explain" THEN do_explain(arg)
    ELSE IF fx = "do_help" THEN do_help(arg)
    ELSE IF fx = "do_reverse" THEN do_reverse(arg)
    ELSE IF fx = "do_distance" THEN do_distance(arg)
    ELSE IF fx = "do_geodistance" THEN do_geodistance(arg)
    ELSE collaborator(arg)

(***************************************************************************)
(* Cli.__call__: the read loop.                                            *)
(***************************************************************************)
\* after_command with the break of the except clause left out
after_command_no_break(res) ==
    IF res = "interrupt" THEN [state |-> "DISPATCHED", shown |-> <<"bye">>]
    ELSE IF res = "raise" THEN [state |-> "CRASHED", shown |-> <<"traceback">>]
    ELSE [state |-> "DISPATCHED", shown |-> <<>>]

\* what the loop does with the way handle_command ended
after_command(res) ==
    IF res = "interrupt" THEN [state |-> "TERMINATED", shown |-> <<"bye">>]
    ELSE IF res = "raise" THEN [state |-> "CRASHED", shown |-> <<"traceback">>]
    ELSE [state |-> "DISPATCHED", shown |-> <<>>]

\* the input lines: a head followed by at most MaxTail pieces
Pieces == {<<" ">>, <<"|">>, <<"X">>, <<"1"," ","1">>, CENTER}

RECURSIVE Tails(_)
Tails(n) ==
    IF n = 0 THEN {<<>>}
    ELSE LET T == Tails(n - 1) IN T \cup {t \o p : t \in T, p \in Pieces}

Heads ==
    {<<>>, <<"g","e","t">>}
    \cup {upper(SubSeq(chars(n), 4, Len(chars(n)))) : n \in CliCommands}

Lines == {h \o t : h \in Heads, t \in Tails(MaxTail)}

\* the short input lines: a head followed by at most one piece
LoopLines == {h \o t : h \in Heads, t \in Tails(1)}

\* self.do_help() on entry
Call ==
    /\ state = "NEW"
    /\ \/ /\ state' = "READY"
          /\ out' = <<"help">>
       \/ /\ state' = "CRASHED"
          /\ out' = <<"traceback">>
    /\ UNCHANGED <<members, COMMANDS, command_line, last, nlines>>
    /\ UNCHANGED <<histVars, getVars>>

\* command = self.prompt(): a line of L (at most n per run), or an
\* interrupt or end of input
ReadLine(L, n) ==
    /\ state = "READY"
    /\ \/ /\ nlines < n
          /\ \E line \in L : command_line' = Some(line)
          /\ state' = "DISPATCHING"
          /\ nlines' = nlines + 1
          /\ out' = out \o <<"prompt">>
       \/ /\ state' = "TERMINATED"
          /\ out' = out \o <<"prompt", "bye">>
          /\ UNCHANGED <<command_line, nlines>>
    /\ last' = None
    /\ UNCHANGED <<members, COMMANDS>>
    /\ UNCHANGED <<histVars, getVars>>

Prompt == ReadLine(Lines, MaxLines)

\* self.handle_command(command), and the except clause around it.  An
\* interrupt is a KeyboardInterrupt that leaves handle_command; one that
\* arrives inside the try of do_geodistance, whose bare except catches it,
\* is not told apart from the malformed query it is reported as.
HandleCommand ==
    /\ state = "DISPATCHING"
    /\ LET line == command_line[1]
           h == handle_command(line)
           ends == IF h.invoked = <<>>
                   THEN {[res |-> IF h.nocommand THEN "nocommand" ELSE "empty",
                          sim |-> FALSE,
                          printed |-> IF h.nocommand THEN <<"text">> ELSE <<>>]}
                   ELSE call(h.invoked[1].fx, h.invoked[1].arg)
                        \cup {[res |-> "interrupt", sim |-> FALSE, printed |-> <<>>]}
       IN \E e \in ends :
            /\ last' = Some([line |-> line, invoked |-> h.invoked,
                             nocommand |-> h.nocommand, res |-> e.res,
                             sim |-> e.sim, printed |-> e.printed])
            /\ state' = after_command(e.res).state
            /\ out' = out \o e.printed \o after_command(e.res).shown
    /\ UNCHANGED <<members, COMMANDS, command_line, nlines>>
    /\ UNCHANGED <<histVars, getVars>>

\* print(yellow('-' * 80)), then back to the top of the loop
Separator ==
    /\ state = "DISPATCHED"
    /\ state' = "READY"
    /\ out' = out \o <<"sep">>
    /\ command_line' = None
    /\ last' = None
    /\ UNCHANGED <<members, COMMANDS, nlines>>
    /\ UNCHANGED <<histVars, getVars>>

Init ==
    /\ members = CliMembers
    /\ COMMANDS = _inspect_commands(CliMembers)
    /\ state = "NEW"
    /\ command_line = None
    /\ last = None
    /\ out = <<>>
    /\ nlines = 0
    /\ proc = "running"
    /\ file = None
    /\ hist = <<>>
    /\ loaded = <<>>
    /\ typed = <<>>
    /\ atexit_n = 1
    /\ doc = <<>>
    /\ get_out = <<>>
    /\ get_res = "none"

Next == Call \/ Prompt \/ HandleCommand \/ Separator

Spec == Init /\ [][Next]_vars

\* the read loop over several lines
PromptLoop == ReadLine(LoopLines, MaxLoopLines)

NextLoop == Call \/ PromptLoop \/ HandleCommand \/ Separator

SpecLoop == Init /\ [][NextLoop]_vars

(***************************************************************************)
(* Cli.__init__, the history file and the process around it.               *)
(***************************************************************************)
\* readline.read_history_file: the lines of the file are appended to the
\* history list; a missing file raises FileNotFoundError, which is passed
read_history_file(h, f) == IF f = None THEN h ELSE h \o f[1]

\* readline.write_history_file: the file becomes the history list
save_history(h) == Some(h)

\* input() with readline loaded: the line is added to the history list
\* unless it is empty or equal to the last entry
add_history(h, line) ==
    IF line = <<>> THEN h
    ELSE IF h # <<>> /\ h[Len(h)] = line THEN h
    ELSE Append(h, line)

\* Cli(): _inspect_commands, then _init_history_file
Construct ==
    /\ proc = "running"
    /\ state \in {"UNBUILT", "NEW"}
    /\ atexit_n < MaxCli
    /\ Len(read_history_file(hist, file)) <= MaxHist
    /\ COMMANDS' = _inspect_commands(members)
    /\ hist' = read_history_file(hist, file)
    /\ atexit_n' = atexit_n + 1
    /\ state' = "NEW"
    /\ UNCHANGED <<members, command_line, last, out, nlines>>
    /\ UNCHANGED <<proc, file, loaded, typed>>
    /\ UNCHANGED getVars

HistLines == {<<>>, <<"X">>, <<"1">>}

\* prompt(): input() returns a line, as far as the history goes; a console
\* has been built (state "NEW" stands for any position of its __call__)
HistInput ==
    /\ proc = "running"
    /\ state = "NEW"
    /\ Len(hist) < MaxHist
    /\ Len(typed) < MaxHist
    /\ \E line \in HistLines :
          /\ typed' = Append(typed, line)
          /\ hist' = add_history(hist, line)
    /\ UNCHANGED <<members, COMMANDS, shellVars>>
    /\ UNCHANGED <<proc, file, loaded, atexit_n>>
    /\ UNCHANGED getVars

\* normal exit of the process: every registered save_history runs
Exit ==
    /\ proc = "running"
    /\ proc' = "exited"
    /\ file' = IF atexit_n > 0 THEN save_history(hist) ELSE file
    /\ UNCHANGED <<members, COMMANDS, shellVars>>
    /\ UNCHANGED <<hist, loaded, typed, atexit_n>>
    /\ UNCHANGED getVars

\* the next process: nothing of the last one is left but the file
Start ==
    /\ proc = "exited"
    /\ proc' = "running"
    /\ hist' = <<>>
    /\ typed' = <<>>
    /\ atexit_n' = 0
    /\ loaded' = IF file = None THEN <<>> ELSE file[1]
    /\ COMMANDS' = <<>>
    /\ state' = "UNBUILT"
    /\ UNCHANGED <<members, command_line, last, out, nlines>>
    /\ UNCHANGED file
    /\ UNCHANGED getVars

InitHist ==
    /\ members = CliMembers
    /\ COMMANDS = <<>>
    /\ state = "UNBUILT"
    /\ command_line = None
    /\ last = None
    /\ out = <<>>
    /\ nlines = 0
    /\ proc = "running"
    /\ file = None
    /\ hist = <<>>
    /\ loaded = <<>>
    /\ typed = <<>>
    /\ atexit_n = 0
    /\ doc = <<>>
    /\ get_out = <<>>
    /\ get_res = "none"

NextHist == Construct \/ HistInput \/ Exit \/ Start

SpecHist == InitHist /\ [][NextHist]_vars

(***************************************************************************)
(* Registration over classes that define more commands: class Cli with any *)
(* of ExtraMembers added to it.                                            *)
(***************************************************************************)
\* further functions a Cli class may define
ExtraMembers == {"do_GET", "do_Get", "do_Help", "do_new", "new"}

RegLines ==
    {<<"G","E","T">>, <<"G","E","T"," ","X">>, <<"H","E","L","P">>,
     <<"N","E","W">>, <<"X">>, <<>>}

InitReg ==
    /\ members \in {CliMembers \cup S : S \in SUBSET ExtraMembers}
    /\ COMMANDS = <<>>
    /\ state = "UNBUILT"
    /\ command_line = None
    /\ last = None
    /\ out = <<>>
    /\ nlines = 0
    /\ proc = "running"
    /\ file = None
    /\ hist = <<>>
    /\ loaded = <<>>
    /\ typed = <<>>
    /\ atexit_n = 0
    /\ doc = <<>>
    /\ get_out = <<>>
    /\ get_res = "none"

PromptReg == ReadLine(RegLines, MaxLines)

NextReg == Construct \/ Call \/ PromptReg \/ HandleCommand \/ Separator

SpecReg == InitReg /\ [][NextReg]_vars

(***************************************************************************)
(* Cli.do_get                                                              *)
(***************************************************************************)
h_prefix == <<"h","|">>

\* is_housenumber testing the first character only
is_housenumber_first_char(key) == key # <<>> /\ key[1] = "h"

\* key.startswith('h|')
is_housenumber(key) == startswith(key, h_prefix)

RECURSIVE get_fields(_)
\* the body of the for loop, else branch: the lines print(white(key), ...)
get_fields(d) ==
    IF d = <<>> THEN <<>>
    ELSE IF is_housenumber(Head(d).key)
    THEN get_fields(Tail(d))
    ELSE <<[kind |-> "field", key |-> Head(d).key, value |-> Head(d).value, map |-> <<>>]>>
         \o get_fields(Tail(d))

RECURSIVE get_housenumbers(_)
\* the body of the for loop, if branch: housenumbers[key] = value
get_housenumbers(d) ==
    IF d = <<>> THEN <<>>
    ELSE IF is_housenumber(Head(d).key)
    THEN <<Head(d)>> \o get_housenumbers(Tail(d))
    ELSE get_housenumbers(Tail(d))

\* what do_get prints for the hash d: the fields in the order of the hash,
\* then the housenumbers when there are any
do_get(d) ==
    get_fields(d) \o
    (IF get_housenumbers(d) # <<>>
     THEN <<[kind |-> "housenumbers", key |-> <<>>, value |-> <<>>,
             map |-> get_housenumbers(d)]>>
     ELSE <<>>)

DocKeys == {<<"n">>, <<"h">>, <<"h","|">>, <<"h","|","1">>, <<"X","h","|">>}

DocValues == {<<"X">>, <<"1">>}

\* the hashes of the store: fields with distinct keys, in the order hgetall gives
Docs ==
    {d \in UNION {[1..n -> [key : DocKeys, value : DocValues]] : n \in 0..MaxFields} :
        \A i, j \in 1..Len(d) : i # j => d[i].key # d[j].key}

\* GET <id>: doc_by_id, which the store can fail, then the loop
DoGet ==
    /\ get_res = "none"
    /\ \/ /\ get_res' = "ok"
          /\ get_out' = do_get(doc)
       \/ /\ get_res' = "raise"
          /\ get_out' = <<>>
    /\ UNCHANGED doc
    /\ UNCHANGED <<members, COMMANDS, shellVars, histVars>>

InitGet ==
    /\ members = CliMembers
    /\ COMMANDS = _inspect_commands(CliMembers)
    /\ state = "NEW"
    /\ command_line = None
    /\ last = None
    /\ out = <<>>
    /\ nlines = 0
    /\ proc = "running"
    /\ file = None
    /\ hist = <<>>
    /\ loaded = <<>>
    /\ typed = <<>>
    /\ atexit_n = 1
    /\ doc \in Docs
    /\ get_out = <<>>
    /\ get_res = "none"

NextGet == DoGet

SpecGet == InitGet /\ [][NextGet]_vars

(***************************************************************************)
(* The properties.                                                         *)
(***************************************************************************)
\* the line begins with the characters of a registered keyword
StartsWithKeyword(line) ==
    \E k \in DOMAIN COMMANDS :
        Len(chars(k)) <= Len(line) /\ \A i \in 1..Len(chars(k)) : line[i] = chars(k)[i]

Blank(line) == \A i \in 1..Len(line) : line[i] = " "

SearchOf(line) == <<[fx |-> "do_search", arg |-> Some(line)]>>

\* C1: a failure raised while a command runs is shown and leaves the shell
\* on its way back to READY; the shell is TERMINATED only after the farewell
\* of an interrupt or end of input.
C1_FailureReturnsToReady ==
    /\ (last # None /\ last[1].res = "raise") =>
          (state \in {"DISPATCHED", "READY"} /\ out # <<>>)
    /\ state = "TERMINATED" => out[Len(out)] = "bye"

\* C2: a non-empty line that does not start with a registered keyword calls
\* do_search exactly once with the whole line, as the line 'SEARCH <line>'
\* does, and reports no 'No command'.
C2_DefaultSearch ==
    last # None =>
        ((last[1].line # <<>> /\ ~ StartsWithKeyword(last[1].line)) =>
            /\ last[1].invoked = SearchOf(last[1].line)
            /\ ~ last[1].nocommand
            /\ handle_command(SEARCH \o <<" ">> \o last[1].line).invoked = last[1].invoked)

\* a lower-case command name with an argument has been searched for
C2_Witness ==
    /\ last # None
    /\ last[1].line = <<"g","e","t"," ","X">>
    /\ last[1].invoked = SearchOf(<<"g","e","t"," ","X">>)
    /\ last[1].res = "ok"

\* C3: a line whose first whitespace-delimited token is not a registered
\* keyword calls do_search with the whole line.
C3_WholeTokenMatch ==
    last # None =>
        ((split_ws(last[1].line) # <<>>
          /\ split_ws(last[1].line)[1] \notin {chars(k) : k \in DOMAIN COMMANDS}) =>
            /\ last[1].invoked = SearchOf(last[1].line)
            /\ ~ last[1].nocommand)

\* C4: a line that is empty once trimmed calls nothing, reports nothing and
\* prints nothing.
C4_BlankLineNoOp ==
    last # None =>
        (Blank(last[1].line) =>
            /\ last[1].invoked = <<>>
            /\ ~ last[1].nocommand
            /\ last[1].printed = <<>>)

\* C5: the line K calls K's method exactly once with None, and the line
\* K + ' ' + rest calls it exactly once with rest, for every registered
\* keyword K; 'No command' is not reported.
C5_KeywordDispatch ==
    last # None =>
        \A k \in DOMAIN COMMANDS :
            /\ last[1].line = chars(k) =>
                  /\ last[1].invoked = <<[fx |-> COMMANDS[k], arg |-> None]>>
                  /\ ~ last[1].nocommand
            /\ (Len(last[1].line) > Len(chars(k))
                /\ SubSeq(last[1].line, 1, Len(chars(k)) + 1) = chars(k) \o <<" ">>) =>
                  /\ last[1].invoked =
                        <<[fx |-> COMMANDS[k],
                           arg |-> Some(SubSeq(last[1].line, Len(chars(k)) + 2,
                                               Len(last[1].line)))]>>
                  /\ ~ last[1].nocommand

\* HELP alone has run with no argument
C5_Witness ==
    /\ last # None
    /\ last[1].line = <<"H","E","L","P">>
    /\ last[1].invoked = <<[fx |-> "do_help", arg |-> None]>>
    /\ last[1].res = "ok"

\* C6: do_distance calls compare_ngrams exactly when its argument has one
\* '|'; for any other argument, none included, it prints the usage message,
\* does not call compare_ngrams and the shell goes on.
C6_DistanceArity ==
    (/\ last # None
     /\ last[1].invoked # <<>>
     /\ last[1].invoked[1].fx = "do_distance"
     /\ last[1].res # "interrupt") =>
        LET arg == last[1].invoked[1].arg
            two == arg # None /\ count(arg[1], "|") = 1
        IN /\ last[1].sim <=> two
           /\ ~ two => (last[1].res = "malformed" /\ state # "CRASHED")

\* the fields of d that are not housenumbers, and those that are
PlainFields(d) ==
    {i \in 1..Len(d) : ~ (Len(d[i].key) >= 2 /\ d[i].key[1] = "h" /\ d[i].key[2] = "|")}

HouseFields(d) == (1..Len(d)) \ PlainFields(d)

GetPrinted(d, o) ==
    /\ \A i \in PlainFields(d) :
          Cardinality({j \in 1..Len(o) : o[j].kind = "field" /\ o[j].key = d[i].key
                                          /\ o[j].value = d[i].value}) = 1
    /\ \A j \in 1..Len(o) :
          o[j].kind = "field" => \E i \in PlainFields(d) : d[i].key = o[j].key
    /\ Cardinality({j \in 1..Len(o) : o[j].kind = "field"}) = Cardinality(PlainFields(d))
    /\ Cardinality({j \in 1..Len(o) : o[j].kind = "housenumbers"})
          = IF HouseFields(d) = {} THEN 0 ELSE 1
    /\ \A j \in 1..Len(o) :
          o[j].kind = "housenumbers" =>
              {o[j].map[m] : m \in 1..Len(o[j].map)} = {d[i] : i \in HouseFields(d)}

\* C7: do_get prints one line for each field whose key does not start with
\* 'h|', none for a field whose key does, and one housenumbers mapping of all
\* those fields exactly when there is one; the document is left as it was.
C7_GetPrints ==
    [][(get_res = "none" /\ get_res' = "ok") =>
          (doc' = doc /\ GetPrinted(doc', get_out'))]_vars

\* a document with the fields h, h| and n has been printed
C7_Witness ==
    /\ get_res = "ok"
    /\ {doc[i].key : i \in 1..Len(doc)} = {<<"h">>, <<"h","|">>, <<"n">>}
    /\ Len(get_out) = 3

\* two functions of the class give the same keyword
DuplicateKeywords(ms) ==
    \E a, b \in ms :
        /\ a # b
        /\ startswith(chars(a), do_prefix) /\ startswith(chars(b), do_prefix)
        /\ upper(SubSeq(chars(a), 4, Len(chars(a)))) = upper(SubSeq(chars(b), 4, Len(chars(b))))

\* C8: with two functions giving the same keyword the construction fails:
\* no console is built, and none reaches READY.
C8_DuplicateKeywordFailsFast ==
    DuplicateKeywords(members) => state = "UNBUILT"

\* every line typed is one readline records: not empty, not the entry before it
Recorded(before, lines) ==
    \A i \in 1..Len(lines) :
        /\ lines[i] # <<>>
        /\ Len(before) + i > 1 => (before \o lines)[Len(before) + i - 1] # lines[i]

\* C9: when a process that built a console exits, the history file holds
\* what it held when the process started followed by the lines typed, in
\* order, none lost and none twice, however many consoles were built.
C9_HistoryPersists ==
    (proc = "exited" /\ atexit_n > 0 /\ Recorded(loaded, typed)) =>
        file = Some(loaded \o typed)

Last(s) == s[Len(s)]

====
